---- MODULE Spec2Model ----
(***************************************************************************)
(* r-sysdeps (src/src/main.rs): one run of main().                         *)
(*                                                                         *)
(* Strings are sequences of characters (one-character TLA+ strings); the   *)
(* fixed fragments of format strings are kept as one element each.         *)
(* Option<T> is a sequence of length 0 (None) or 1 (Some).                 *)
(***************************************************************************)
EXTENDS Integers, Sequences, FiniteSets, TLC

VARIABLES pc, opt, os_release, distribution, release, rspm_status,
          repositories, repository_name, repository, response, req_idx,
          stdout, err, log

\* pc              where the run is: detect_os, detect_os_parse, server_status,
\*                 server_repositories, resolve, action, print_reqs, done, failed
\* opt             the parsed command line (struct Opt); a field moved out of
\*                 it by the code is None afterwards
\* os_release      detect_os's local: the content read from /etc/os-release
\* distribution, release   the OS identity detect_os returned
\* rspm_status     Option of the APIStatusResponse (cran_repo empty once moved)
\* repositories    Option of the Vec<APIRepository>
\* repository_name, repository   the effective name and its catalog entry
\* response, req_idx   the APISysReqs and the loop position in its requirements
\* stdout          the lines printed
\* err             Option of the anyhow error main returned
\* log             the steps started, with the file or URL each one touched
vars == <<pc, opt, os_release, distribution, release, rspm_status,
          repositories, repository_name, repository, response, req_idx,
          stdout, err, log>>

\* ------------------------------------------------------------------ bounds
MaxLines == 2
MaxDistros == 2
MaxRepos == 2
MaxReqs == 2
MaxPkgs == 1

\* ----------------------------------------------------------------- helpers
None == <<>>
Some(x) == <<x>>
IsSome(o) == Len(o) = 1
IsNone(o) == Len(o) = 0

\* all sequences over S without repetition, of length at most n
RECURSIVE SeqsUpTo(_, _)
SeqsUpTo(S, n) ==
  IF n = 0 THEN {<<>>}
  ELSE LET shorter == SeqsUpTo(S, n - 1)
       IN shorter \cup
          {Append(s, x) : s \in {t \in shorter : Len(t) = n - 1}, x \in S}

Range(s) == {s[i] : i \in DOMAIN s}
NoRepeat(s) == Cardinality(Range(s)) = Len(s)
DistinctSeqsUpTo(S, n) == {s \in SeqsUpTo(S, n) : NoRepeat(s)}

RECURSIVE Concat(_)
Concat(ss) == IF ss = <<>> THEN <<>> ELSE Head(ss) \o Concat(Tail(ss))

\* ------------------------------------------------------------ string data
Ubuntu == <<"u", "b", "u", "n", "t", "u">>
Debian == <<"d", "e", "b", "i", "a", "n">>
Centos == <<"c", "e", "n", "t", "o", "s">>
R20 == <<"2", "0">>
R2004 == <<"2", "0", ".", "0", "4">>
R204 == <<"2", ".", "0", "4">>
KeyId == <<"I", "D">>
KeyVersionId == <<"V", "E", "R", "S", "I", "O", "N", "_", "I", "D">>
CRAN == <<"C", "R", "A", "N">>
cran == <<"c", "r", "a", "n">>
Bioc == <<"b", "i", "o", "c">>
Quoted(s) == <<"\"">> \o s \o <<"\"">>

Join(ss, sep) ==
  Concat([i \in 1..Len(ss) |-> IF i = 1 THEN ss[i] ELSE sep \o ss[i]])

\* anyhow errors: the failing step's kind and the text the message carries
Error(kind, detail) == Some([kind |-> kind, detail |-> detail])

\* ----------------------------------------------------- command line (Opt)
DefaultServer == <<"https://packagemanager.rstudio.com">>
Servers == {DefaultServer}
OsNames == {None, Some(Ubuntu)}
OsVersions == {None, Some(R20)}
RepositoryNames == {None, Some(CRAN), Some(cran)}
PkgNames == {<<"s", "f">>}

ActionPackage(packages) ==
  [cmd |-> "package", packages |-> packages, list |-> FALSE,
   binary_repository |-> FALSE, source_repository |-> FALSE]
ActionRepository(list, binary_repository, source_repository) ==
  [cmd |-> "repository", packages |-> <<>>, list |-> list,
   binary_repository |-> binary_repository,
   source_repository |-> source_repository]
Actions ==
  {ActionPackage(p) : p \in SeqsUpTo(PkgNames, MaxPkgs)} \cup
  {ActionRepository(l, b, s) : l \in BOOLEAN, b \in BOOLEAN, s \in BOOLEAN}

Opts ==
  [os_name : OsNames, os_version : OsVersions, server : Servers,
   repository : RepositoryNames, action : Actions]

\* ------------------------------------------------------- /etc/os-release
OsReleasePath == <<"/etc/os-release">>
OsReleaseLines ==
  { KeyId \o <<"=">> \o Ubuntu,
    KeyId \o <<"=">> \o Quoted(Debian),
    KeyVersionId \o <<"=">> \o Quoted(R2004),
    KeyVersionId \o <<"=">> \o R204,
    KeyId \o <<"=">> \o Centos \o <<"=">> \o R20,
    KeyVersionId }
OsReleaseFiles ==
  {Concat([i \in 1..Len(ls) |-> ls[i] \o <<"\n">>]) :
     ls \in SeqsUpTo(OsReleaseLines, MaxLines)}

IndexOf(s, c) == CHOOSE i \in 1..Len(s) : s[i] = c /\ \A j \in 1..(i - 1) : s[j] # c
Contains(s, c) == \E i \in 1..Len(s) : s[i] = c

\* str::lines (the files of OsReleaseFiles hold no carriage return)
RECURSIVE Lines(_)
Lines(s) ==
  IF s = <<>> THEN <<>>
  ELSE IF ~Contains(s, "\n") THEN <<s>>
  ELSE LET i == IndexOf(s, "\n")
       IN <<SubSeq(s, 1, i - 1)>> \o Lines(SubSeq(s, i + 1, Len(s)))

\* line.split("=").collect()
RECURSIVE Split(_)
Split(s) ==
  IF ~Contains(s, "=") THEN <<s>>
  ELSE LET i == IndexOf(s, "=")
       IN <<SubSeq(s, 1, i - 1)>> \o Split(SubSeq(s, i + 1, Len(s)))

\* .replace("\"", "")
IsNotQuote(c) == c # "\""
RemoveQuotes(s) == SelectSeq(s, IsNotQuote)

\* faulty variant: lines with more than one '=' are kept
WellFormedLoose(parts) == Len(parts) >= 2

\* .filter(|parts| parts.len() == 2)
WellFormed(parts) == Len(parts) = 2

\* HashMap::insert
Insert(m, k, v) == [x \in DOMAIN m \cup {k} |-> IF x = k THEN v ELSE m[x]]
EmptyMap == [x \in {} |-> <<>>]

\* the os_attributes map after the for_each over the well-formed lines
RECURSIVE InsertAll(_, _)
InsertAll(m, lines) ==
  IF lines = <<>> THEN m
  ELSE LET parts == Split(Head(lines))
       IN InsertAll(IF WellFormed(parts)
                    THEN Insert(m, RemoveQuotes(parts[1]), RemoveQuotes(parts[2]))
                    ELSE m,
                    Tail(lines))
OsAttributes(content) == InsertAll(EmptyMap, Lines(content))

\* HashMap::get
Get(m, k) == IF k \in DOMAIN m THEN Some(m[k]) ELSE None

\* --------------------------------------------------------- server answers
DistroFocal ==
  [distribution |-> Ubuntu, release |-> R20,
   binary_url |-> <<"f", "o", "c", "a", "l">>, binaries |-> TRUE]
DistroFocalSrcOnly ==
  [distribution |-> Ubuntu, release |-> R2004,
   binary_url |-> <<"f", "o", "c", "a", "l", "-", "s">>, binaries |-> FALSE]
DistroBuster ==
  [distribution |-> Debian, release |-> <<"2">>,
   binary_url |-> <<"b", "u", "s", "t", "e", "r">>, binaries |-> TRUE]
Distros == {DistroFocal, DistroFocalSrcOnly, DistroBuster}

\* APIStatusResponse: the fields main reads
StatusBodies ==
  [binaries_enabled : BOOLEAN,
   distros : DistinctSeqsUpTo(Distros, MaxDistros),
   cran_repo : {CRAN, Bioc}]

\* APIRepository: the fields main reads
Repos ==
  {[id |-> 1, name |-> CRAN], [id |-> 2, name |-> cran], [id |-> 3, name |-> CRAN]}
RepoBodies == DistinctSeqsUpTo(Repos, MaxRepos)

Script(body) == [command |-> <<"run">>, script |-> body]
ReqFull ==
  [name |-> <<"s", "f">>,
   requirements |->
     [packages |-> << <<"libgdal-dev">>, <<"libproj-dev">> >>,
      pre_install |-> Some(<< Script(<<"pre-1">>), Script(<<"pre-2">>) >>),
      install_scripts |-> << <<"install-1">>, <<"install-2">> >>,
      post_install |-> Some(<< Script(<<"post-1">>) >>)]]
ReqBare ==
  [name |-> <<"X", "M", "L">>,
   requirements |->
     [packages |-> << <<"libxml2-dev">> >>,
      pre_install |-> None,
      install_scripts |-> << <<"install-xml">> >>,
      post_install |-> None]]
Reqs == {ReqFull, ReqBare}
SysReqsBodies == [requirements : DistinctSeqsUpTo(Reqs, MaxReqs)]

\* what minreq's send() and json() can give for one GET
StatusCodes == {199, 200, 299, 300}
HttpResponses(bodies) ==
  {[sent |-> FALSE, status_code |-> 0, json |-> None]} \cup
  [sent : {TRUE}, status_code : StatusCodes,
   json : {None} \cup {Some(b) : b \in bodies}]

\* the Result of one server_* function for the response r of GET server+path
HttpResult(server, path, r) ==
  IF ~r.sent
  THEN [ok |-> None, err |-> Error("ServerUnreachable", <<"failed to reach server ">> \o server)]
  ELSE IF r.status_code < 200 \/ r.status_code > 299
  THEN [ok |-> None, err |-> Error("ServerUnreachable", <<"failed to reach ">> \o server \o path)]
  ELSE IF IsNone(r.json)
  THEN [ok |-> None,
        err |-> Error("ResponseFormat", <<"failed to parse JSON response from ">> \o server \o path)]
  ELSE [ok |-> r.json, err |-> None]

IdStr(id) == <<<<"0", "1", "2", "3", "4", "5", "6", "7", "8", "9">>[id + 1]>>
StatusPath == <<"/__api__/status">>
ReposPath == <<"/__api__/repos">>
SysReqsPath(repo_id) == <<"/__api__/repos/">> \o IdStr(repo_id) \o <<"/sysreqs">>
SysReqsQuery(dist, rel, packages) ==
  <<"?distribution=">> \o dist \o <<"&release=">> \o rel \o
  Concat([i \in 1..Len(packages) |-> <<"&pkgname=">> \o packages[i]])

Step(step, target) == [step |-> step, target |-> target]

\* ------------------------------------------------------- pure parts of main
\* detect_os, lines 302-325: the result for the content read from the file
DetectFromFile(content) ==
  LET os_attributes == OsAttributes(content)
      name == Get(os_attributes, KeyId)
      version == Get(os_attributes, KeyVersionId)
  IN IF IsSome(name) /\ IsSome(version)
     THEN [ok |-> Some(<<name[1], version[1]>>), err |-> None]
     ELSE [ok |-> None,
           err |-> Error("DetectionError",
                         <<"failed to detect linux distribution and/or version">>)]

\* opt.repository.unwrap_or(rspm_status.cran_repo)
RepositoryName(requested, cran_repo) ==
  IF IsSome(requested) THEN requested[1] ELSE cran_repo

\* faulty variant: names compared without regard to case
LowerChar(c) ==
  CASE c = "C" -> "c" [] c = "R" -> "r" [] c = "A" -> "a" [] c = "N" -> "n"
    [] OTHER -> c
Lower(s) == [i \in 1..Len(s) |-> LowerChar(s[i])]
NameEqIgnoreCase(a, b) == Lower(a) = Lower(b)

\* repo.name == repository_name
NameEq(a, b) == a = b

\* faulty variant: an unknown name falls back to the first catalog entry
FindRepositoryFallback(repos, name) ==
  LET found == SelectSeq(repos, LAMBDA repo : repo.name = name)
  IN IF Len(found) > 0 THEN Some(found[1])
     ELSE IF Len(repos) > 0 THEN Some(repos[1]) ELSE None

\* repositories.iter().filter(..).take(1).next()
FindRepository(repos, name) ==
  LET found == SelectSeq(repos, LAMBDA repo : NameEq(repo.name, name))
  IN IF Len(found) = 0 THEN None ELSE Some(found[1])

\* faulty variant: exact release equality
StartsWithExact(s, prefix) == s = prefix

\* str::starts_with
StartsWith(s, prefix) ==
  Len(prefix) <= Len(s) /\ SubSeq(s, 1, Len(prefix)) = prefix

DistroMatches(distro, dist, rel) ==
  distro.distribution = dist /\ StartsWith(rel, distro.release)

\* faulty variant: a matching distro with binaries is preferred to an earlier match
FindDistroPreferBinaries(distros, dist, rel) ==
  LET found == SelectSeq(distros,
                         LAMBDA distro : /\ distro.distribution = dist
                                         /\ Len(distro.release) <= Len(rel)
                                         /\ SubSeq(rel, 1, Len(distro.release)) = distro.release)
      capable == SelectSeq(found, LAMBDA distro : distro.binaries)
  IN IF Len(found) = 0 THEN None
     ELSE IF Len(capable) > 0 THEN Some(capable[1]) ELSE Some(found[1])

\* rspm_status.distros.iter().filter(..).take(1).next()
FindDistro(distros, dist, rel) ==
  LET found == SelectSeq(distros, LAMBDA distro : DistroMatches(distro, dist, rel))
  IN IF Len(found) = 0 THEN None ELSE Some(found[1])

OsLabel(dist, rel) == dist \o <<"-">> \o rel

SourceUrl(server, name) == server \o <<"/">> \o name \o <<"/latest">>

BinaryUrl(server, name, binary_url) ==
  server \o <<"/">> \o name \o <<"/__linux__/">> \o binary_url \o <<"/latest">>

\* faulty variant: the server-wide binaries_enabled flag is not consulted
BinaryRepositoryNoServerCheck(server, name, dist, rel, status) ==
  LET distro == FindDistro(status.distros, dist, rel)
  IN IF IsNone(distro)
     THEN [out |-> <<>>,
           err |-> Error("UnsupportedOs",
                         <<"server does not support OS ">> \o OsLabel(dist, rel))]
     ELSE IF ~distro[1].binaries
     THEN [out |-> <<>>,
           err |-> Error("BinariesDisabledOs",
                         <<"binary repositories not enabled for ">> \o OsLabel(dist, rel))]
     ELSE [out |-> <<BinaryUrl(server, name, distro[1].binary_url)>>, err |-> None]

\* faulty variant: the URL is printed as soon as a distro matches, before the checks
BinaryRepositoryPrintFirst(server, name, dist, rel, status) ==
  LET distro == FindDistro(status.distros, dist, rel)
  IN IF IsNone(distro)
     THEN [out |-> <<>>,
           err |-> Error("UnsupportedOs",
                         <<"server does not support OS ">> \o OsLabel(dist, rel))]
     ELSE IF ~status.binaries_enabled
     THEN [out |-> <<BinaryUrl(server, name, distro[1].binary_url)>>,
           err |-> Error("BinariesDisabledServer",
                         <<"binary repositories not enabled on server">>)]
     ELSE IF ~distro[1].binaries
     THEN [out |-> <<BinaryUrl(server, name, distro[1].binary_url)>>,
           err |-> Error("BinariesDisabledOs",
                         <<"binary repositories not enabled for ">> \o OsLabel(dist, rel))]
     ELSE [out |-> <<BinaryUrl(server, name, distro[1].binary_url)>>, err |-> None]

\* the binary_repository branch, lines 184-211: the lines printed and the error
BinaryRepository(server, name, dist, rel, status) ==
  LET distro == FindDistro(status.distros, dist, rel)
  IN IF IsNone(distro)
     THEN [out |-> <<>>,
           err |-> Error("UnsupportedOs",
                         <<"server does not support OS ">> \o OsLabel(dist, rel))]
     ELSE IF ~status.binaries_enabled
     THEN [out |-> <<>>,
           err |-> Error("BinariesDisabledServer",
                         <<"binary repositories not enabled on server">>)]
     ELSE IF ~distro[1].binaries
     THEN [out |-> <<>>,
           err |-> Error("BinariesDisabledOs",
                         <<"binary repositories not enabled for ">> \o OsLabel(dist, rel))]
     ELSE [out |-> <<BinaryUrl(server, name, distro[1].binary_url)>>, err |-> None]

\* Option<Vec<APIPrePost>>: the script bodies printed, none when absent
ScriptBodies(prepost) ==
  IF IsSome(prepost)
  THEN [i \in 1..Len(prepost[1]) |-> prepost[1][i].script]
  ELSE <<>>

\* faulty variant: the install scripts are printed before the pre-install scripts
RenderRequirementInstallFirst(req) ==
  << <<"# R package: ">> \o req.name,
     <<"## System libraries: ">> \o Join(req.requirements.packages, <<", ">>) >>
  \o req.requirements.install_scripts
  \o ScriptBodies(req.requirements.pre_install)
  \o ScriptBodies(req.requirements.post_install)
  \o << <<>> >>

\* one iteration of the loop over response.requirements, lines 154-169
RenderRequirement(req) ==
  << <<"# R package: ">> \o req.name,
     <<"## System libraries: ">> \o Join(req.requirements.packages, <<", ">>) >>
  \o ScriptBodies(req.requirements.pre_install)
  \o req.requirements.install_scripts
  \o ScriptBodies(req.requirements.post_install)
  \o << <<>> >>

\* ------------------------------------------------------------------- state
Init ==
  /\ pc = "detect_os"
  /\ opt \in Opts
  /\ os_release = None
  /\ distribution = <<>>
  /\ release = <<>>
  /\ rspm_status = None
  /\ repositories = None
  /\ repository_name = None
  /\ repository = None
  /\ response = None
  /\ req_idx = 0
  /\ stdout = <<>>
  /\ err = None
  /\ log = <<>>

\* detect_os, lines 297-300: both overrides given
detect_os_given ==
  /\ pc = "detect_os"
  /\ IsSome(opt.os_name) /\ IsSome(opt.os_version)
  /\ distribution' = opt.os_name[1]
  /\ release' = opt.os_version[1]
  /\ opt' = [opt EXCEPT !.os_name = None, !.os_version = None]
  /\ log' = Append(log, Step("detect_os", <<>>))
  /\ pc' = "server_status"
  /\ UNCHANGED <<os_release, rspm_status, repositories, repository_name,
                 repository, response, req_idx, stdout, err>>

\* detect_os, lines 297-308: not both overrides, read /etc/os-release
detect_os_read ==
  /\ pc = "detect_os"
  /\ ~(IsSome(opt.os_name) /\ IsSome(opt.os_version))
  /\ opt' = [opt EXCEPT !.os_name = None, !.os_version = None]
  /\ log' = Append(log, Step("detect_os", OsReleasePath))
  /\ \E file \in {None} \cup {Some(c) : c \in OsReleaseFiles} :
       IF IsNone(file)
       THEN /\ err' = Error("IoError", <<"failed to read ">> \o OsReleasePath)
            /\ pc' = "failed"
            /\ UNCHANGED os_release
       ELSE /\ os_release' = file
            /\ pc' = "detect_os_parse"
            /\ UNCHANGED err
  /\ UNCHANGED <<distribution, release, rspm_status, repositories,
                 repository_name, repository, response, req_idx, stdout>>

\* detect_os, lines 310-325: parse the lines, look up ID and VERSION_ID
detect_os_parse ==
  /\ pc = "detect_os_parse"
  /\ LET res == DetectFromFile(os_release[1])
     IN IF IsSome(res.ok)
        THEN /\ distribution' = res.ok[1][1]
             /\ release' = res.ok[1][2]
             /\ pc' = "server_status"
             /\ UNCHANGED err
        ELSE /\ err' = res.err
             /\ pc' = "failed"
             /\ UNCHANGED <<distribution, release>>
  /\ os_release' = None
  /\ UNCHANGED <<opt, rspm_status, repositories, repository_name, repository,
                 response, req_idx, stdout, log>>

\* faulty variant: a failed status fetch is tried a second time
server_status_retry ==
  /\ pc = "server_status"
  /\ log' = Append(log, Step("server_status", opt.server \o StatusPath))
  /\ \E r \in HttpResponses(StatusBodies) :
       LET res == HttpResult(opt.server, StatusPath, r)
       IN IF IsSome(res.ok)
          THEN /\ rspm_status' = res.ok
               /\ pc' = "server_repositories"
               /\ UNCHANGED err
          ELSE IF Len(log) < 2
          THEN UNCHANGED <<pc, err, rspm_status>>
          ELSE /\ err' = res.err
               /\ pc' = "failed"
               /\ UNCHANGED rspm_status
  /\ UNCHANGED <<opt, os_release, distribution, release, repositories,
                 repository_name, repository, response, req_idx, stdout>>

\* server_status, lines 276-294, called at line 128
server_status ==
  /\ pc = "server_status"
  /\ log' = Append(log, Step("server_status", opt.server \o StatusPath))
  /\ \E r \in HttpResponses(StatusBodies) :
       LET res == HttpResult(opt.server, StatusPath, r)
       IN IF IsSome(res.ok)
          THEN /\ rspm_status' = res.ok
               /\ pc' = "server_repositories"
               /\ UNCHANGED err
          ELSE /\ err' = res.err
               /\ pc' = "failed"
               /\ UNCHANGED rspm_status
  /\ UNCHANGED <<opt, os_release, distribution, release, repositories,
                 repository_name, repository, response, req_idx, stdout>>

\* server_repositories, lines 256-274, called at line 129
server_repositories ==
  /\ pc = "server_repositories"
  /\ log' = Append(log, Step("server_repositories", opt.server \o ReposPath))
  /\ \E r \in HttpResponses(RepoBodies) :
       LET res == HttpResult(opt.server, ReposPath, r)
       IN IF IsSome(res.ok)
          THEN /\ repositories' = res.ok
               /\ pc' = "resolve"
               /\ UNCHANGED err
          ELSE /\ err' = res.err
               /\ pc' = "failed"
               /\ UNCHANGED repositories
  /\ UNCHANGED <<opt, os_release, distribution, release, rspm_status,
                 repository_name, repository, response, req_idx, stdout>>

\* main, lines 131-140: the effective repository name and its catalog entry
resolve_repository ==
  /\ pc = "resolve"
  /\ LET name == RepositoryName(opt.repository, rspm_status[1].cran_repo)
         found == FindRepository(repositories[1], name)
     IN /\ repository_name' = Some(name)
        /\ repository' = found
        /\ IF IsSome(found)
           THEN pc' = "action" /\ UNCHANGED err
           ELSE /\ pc' = "failed"
                /\ err' = Error("RepositoryNotFound",
                                <<"Specified repository '">> \o name \o
                                <<"' does not exist on the server">>)
  /\ opt' = [opt EXCEPT !.repository = None]
  /\ rspm_status' = Some([rspm_status[1] EXCEPT !.cran_repo = <<>>])
  /\ UNCHANGED <<os_release, distribution, release, repositories, response,
                 req_idx, stdout, log>>

\* server_sysreqs, lines 219-254, called at lines 144-151
\* (Url::parse_with_params succeeds for every server in Servers)
server_sysreqs ==
  /\ pc = "action"
  /\ opt.action.cmd = "package"
  /\ LET path == SysReqsPath(repository[1].id)
     IN /\ log' = Append(log,
                         Step("server_sysreqs",
                              opt.server \o path \o
                              SysReqsQuery(distribution, release, opt.action.packages)))
        /\ \E r \in HttpResponses(SysReqsBodies) :
             LET res == HttpResult(opt.server, path, r)
             IN IF IsSome(res.ok)
                THEN /\ response' = res.ok
                     /\ req_idx' = 1
                     /\ pc' = IF Len(res.ok[1].requirements) = 0
                              THEN "done" ELSE "print_reqs"
                     /\ UNCHANGED err
                ELSE /\ err' = res.err
                     /\ pc' = "failed"
                     /\ UNCHANGED <<response, req_idx>>
  /\ UNCHANGED <<opt, os_release, distribution, release, rspm_status,
                 repositories, repository_name, repository, stdout>>

\* main, lines 153-170: one iteration of the loop over the requirements
print_requirement ==
  /\ pc = "print_reqs"
  /\ stdout' = stdout \o RenderRequirement(response[1].requirements[req_idx])
  /\ req_idx' = req_idx + 1
  /\ pc' = IF req_idx = Len(response[1].requirements) THEN "done" ELSE "print_reqs"
  /\ UNCHANGED <<opt, os_release, distribution, release, rspm_status,
                 repositories, repository_name, repository, response, err, log>>

\* main, lines 177-180: --list-repositories
list_repositories ==
  /\ pc = "action"
  /\ opt.action.cmd = "repository"
  /\ opt.action.list
  /\ stdout' = stdout \o [i \in 1..Len(repositories[1]) |-> repositories[1][i].name]
  /\ pc' = "done"
  /\ UNCHANGED <<opt, os_release, distribution, release, rspm_status,
                 repositories, repository_name, repository, response, req_idx,
                 err, log>>

\* faulty variant: the source URL is refused for an OS the server has no distro for
source_repository_for_os ==
  /\ pc = "action"
  /\ opt.action.cmd = "repository"
  /\ ~opt.action.list
  /\ opt.action.source_repository
  /\ IF IsSome(FindDistro(rspm_status[1].distros, distribution, release))
     THEN /\ stdout' = Append(stdout, SourceUrl(opt.server, repository_name[1]))
          /\ pc' = "done"
          /\ UNCHANGED err
     ELSE /\ err' = Error("UnsupportedOs",
                          <<"server does not support OS ">> \o OsLabel(distribution, release))
          /\ pc' = "failed"
          /\ UNCHANGED stdout
  /\ UNCHANGED <<opt, os_release, distribution, release, rspm_status,
                 repositories, repository_name, repository, response, req_idx, log>>

\* main, lines 181-182: --source-repository
source_repository ==
  /\ pc = "action"
  /\ opt.action.cmd = "repository"
  /\ ~opt.action.list
  /\ opt.action.source_repository
  /\ stdout' = Append(stdout, SourceUrl(opt.server, repository_name[1]))
  /\ pc' = "done"
  /\ UNCHANGED <<opt, os_release, distribution, release, rspm_status,
                 repositories, repository_name, repository, response, req_idx,
                 err, log>>

\* main, lines 183-211: --binary-repository
binary_repository ==
  /\ pc = "action"
  /\ opt.action.cmd = "repository"
  /\ ~opt.action.list
  /\ ~opt.action.source_repository
  /\ opt.action.binary_repository
  /\ LET res == BinaryRepository(opt.server, repository_name[1], distribution,
                                 release, rspm_status[1])
     IN /\ stdout' = stdout \o res.out
        /\ err' = res.err
        /\ pc' = IF IsSome(res.err) THEN "failed" ELSE "done"
  /\ UNCHANGED <<opt, os_release, distribution, release, rspm_status,
                 repositories, repository_name, repository, response, req_idx, log>>

\* main, lines 172-213: the repository subcommand with none of the three flags
no_flag ==
  /\ pc = "action"
  /\ opt.action.cmd = "repository"
  /\ ~opt.action.list
  /\ ~opt.action.source_repository
  /\ ~opt.action.binary_repository
  /\ pc' = "done"
  /\ UNCHANGED <<opt, os_release, distribution, release, rspm_status,
                 repositories, repository_name, repository, response, req_idx,
                 stdout, err, log>>

Next ==
  \/ detect_os_given
  \/ detect_os_read
  \/ detect_os_parse
  \/ server_status
  \/ server_repositories
  \/ resolve_repository
  \/ server_sysreqs
  \/ print_requirement
  \/ list_repositories
  \/ source_repository
  \/ binary_repository
  \/ no_flag

Spec == Init /\ [][Next]_vars

\* ------------------------------------------------------------ properties
Min(S) == CHOOSE x \in S : \A y \in S : x <= y
Max(S) == CHOOSE x \in S : \A y \in S : y <= x
Terminated == pc \in {"done", "failed"}
IsPrefix(p, s) == Len(p) <= Len(s) /\ \A i \in 1..Len(p) : s[i] = p[i]

\* the run reached the --binary-repository branch and ended
BinaryRan ==
  /\ Terminated
  /\ IsSome(repository)
  /\ opt.action.cmd = "repository"
  /\ ~opt.action.list
  /\ ~opt.action.source_repository
  /\ opt.action.binary_repository

\* positions of the server's distros that match the detected OS
Matching ==
  {i \in 1..Len(rspm_status[1].distros) :
     /\ rspm_status[1].distros[i].distribution = distribution
     /\ IsPrefix(rspm_status[1].distros[i].release, release)}
FirstMatching == rspm_status[1].distros[Min(Matching)]
ErrKind == IF IsSome(err) THEN err[1].kind ELSE "none"

\* C1: in the binary-repository action a distro matches iff its distribution
\* equals the detected one and the detected release starts with the distro's
\* release; a URL is printed iff some distro matches, binaries are enabled
\* on the server and the first matching distro supports binaries, and the URL
\* is {server}/{repoName}/__linux__/{binaryUrlSegment of that distro}/latest.
C1_BinaryUrl ==
  BinaryRan =>
    IF Matching # {} /\ rspm_status[1].binaries_enabled /\ FirstMatching.binaries
    THEN /\ pc = "done"
         /\ stdout = << opt.server \o <<"/">> \o repository_name[1] \o
                        <<"/__linux__/">> \o FirstMatching.binary_url \o
                        <<"/latest">> >>
    ELSE pc = "failed" /\ stdout = <<>>

\* detected 20.04 against the server's "20": a URL for that distro is printed
C1_Witness ==
  /\ BinaryRan
  /\ distribution = Ubuntu /\ release = R2004
  /\ rspm_status[1].distros = <<DistroBuster, DistroFocal>>
  /\ pc = "done"
  /\ Len(stdout) = 1

\* C2 as stated: with binaries disabled on the server every binary-repository
\* request ends in the server-wide error, whatever the OS and the distro list.
C2_Original ==
  (BinaryRan /\ ~rspm_status[1].binaries_enabled) =>
    (pc = "failed" /\ ErrKind = "BinariesDisabledServer")

\* C2 amended: with binaries disabled on the server a binary-repository
\* request for an OS that some distro matches ends in the server-wide error,
\* also when the matching distro supports binaries; for an OS no distro matches
\* it ends in the unsupported-OS error.
C2_Amended ==
  (BinaryRan /\ ~rspm_status[1].binaries_enabled) =>
    /\ pc = "failed"
    /\ stdout = <<>>
    /\ ErrKind = IF Matching # {} THEN "BinariesDisabledServer" ELSE "UnsupportedOs"

C2_Witness ==
  /\ BinaryRan
  /\ ~rspm_status[1].binaries_enabled
  /\ Matching # {}
  /\ FirstMatching.binaries
  /\ ErrKind = "BinariesDisabledServer"

\* C9: the binary-repository errors follow the step order and the first
\* matching distro only: no match gives the unsupported-OS error naming
\* distribution-release; else binaries disabled on the server gives the
\* server-wide error; else a first match without binaries gives the
\* OS-specific error naming distribution-release, also when a later distro
\* matches and supports binaries.
C9_BinaryErrors ==
  BinaryRan =>
    /\ Matching = {} =>
         err = Error("UnsupportedOs",
                     <<"server does not support OS ">> \o distribution \o
                     <<"-">> \o release)
    /\ (Matching # {} /\ ~rspm_status[1].binaries_enabled) =>
         err = Error("BinariesDisabledServer",
                     <<"binary repositories not enabled on server">>)
    /\ (Matching # {} /\ rspm_status[1].binaries_enabled /\ ~FirstMatching.binaries) =>
         err = Error("BinariesDisabledOs",
                     <<"binary repositories not enabled for ">> \o distribution \o
                     <<"-">> \o release)

\* the first match has no binaries, a later match has them
C9_Witness ==
  /\ BinaryRan
  /\ rspm_status[1].binaries_enabled
  /\ Cardinality(Matching) = 2
  /\ ~FirstMatching.binaries
  /\ rspm_status[1].distros[Max(Matching)].binaries
  /\ ErrKind = "BinariesDisabledOs"

CatalogNames == {repositories[1][i].name : i \in 1..Len(repositories[1])}
Requested(step) == \E i \in 1..Len(log) : log[i].step = step

\* C3: when the effective repository name is the name of no catalog entry the
\* run ends with the repository-not-found error, the system-requirements
\* request is never issued and nothing is printed.
C3_FailFast ==
  (IsSome(repository_name) /\ repository_name[1] \notin CatalogNames) =>
    /\ pc = "failed"
    /\ ErrKind = "RepositoryNotFound"
    /\ ~Requested("server_sysreqs")
    /\ stdout = <<>>

\* a package run for a repository the catalog lacks
C3_Witness ==
  /\ IsSome(repository_name)
  /\ repository_name[1] \notin CatalogNames
  /\ Len(repositories[1]) > 0
  /\ opt.action.cmd = "package"
  /\ pc = "failed"

\* C4: repository resolution takes the requested name, or the server's
\* default when none is requested, and returns the first catalog entry whose
\* name is exactly that name; when no entry has exactly that name it fails
\* with the repository-not-found error naming it, never with another entry.
C4_Resolution ==
  [][pc = "resolve" =>
       LET effective == IF Len(opt.repository) = 1
                        THEN opt.repository[1]
                        ELSE rspm_status[1].cran_repo
           exact == {i \in 1..Len(repositories[1]) :
                       repositories[1][i].name = effective}
       IN /\ repository_name' = Some(effective)
          /\ IF exact = {}
             THEN /\ pc' = "failed"
                  /\ repository' = None
                  /\ err' = Error("RepositoryNotFound",
                                  <<"Specified repository '">> \o effective \o
                                  <<"' does not exist on the server">>)
             ELSE /\ pc' = "action"
                  /\ repository' = Some(repositories[1][Min(exact)])
                  /\ err' = None]_vars

\* "cran" asked of a catalog that holds "CRAN" twice and no "cran"
C4_Witness ==
  /\ pc = "failed"
  /\ ErrKind = "RepositoryNotFound"
  /\ repository_name = Some(cran)
  /\ Len(repositories[1]) = 2
  /\ CatalogNames = {CRAN}

\* the run reached the --source-repository branch and ended
SourceRan ==
  /\ Terminated
  /\ IsSome(repository)
  /\ opt.action.cmd = "repository"
  /\ ~opt.action.list
  /\ opt.action.source_repository

\* C5: a source-repository request for a known repository prints exactly
\* {server}/{repo}/latest and succeeds, whatever the OS identity, the
\* binaries_enabled flag and the distro list are.
C5_SourceUrl ==
  SourceRan =>
    /\ pc = "done"
    /\ stdout = << opt.server \o <<"/">> \o repository_name[1] \o <<"/latest">> >>

\* the source URL for an OS the server has no distro for, binaries disabled
C5_Witness ==
  /\ SourceRan
  /\ ~rspm_status[1].binaries_enabled
  /\ rspm_status[1].distros = <<>>
  /\ distribution = Debian
  /\ Len(stdout) = 1

\* C10: a run that ends in an error has printed nothing, in every action;
\* a run that has printed a line does not fail.
C10_AllOrNothing ==
  /\ pc = "failed" => stdout = <<>>
  /\ stdout # <<>> => (err = None /\ pc \in {"print_reqs", "done"})

\* the last fallible step of the binary-repository action failed
C10_Witness ==
  /\ BinaryRan
  /\ ErrKind = "BinariesDisabledOs"
  /\ stdout = <<>>

\* what the claim says of one line of the metadata file
EqualsSigns(line) == {i \in 1..Len(line) : line[i] = "="}
Unquoted(s) == SelectSeq(s, LAMBDA c : c # "\"")
KeyOf(line) == Unquoted(SubSeq(line, 1, Min(EqualsSigns(line)) - 1))
ValueOf(line) == Unquoted(SubSeq(line, Min(EqualsSigns(line)) + 1, Len(line)))
\* the lines of the file read that have exactly one '=' and the key `key`
LinesFor(key) ==
  LET lines == Lines(os_release[1])
  IN {i \in 1..Len(lines) :
        Cardinality(EqualsSigns(lines[i])) = 1 /\ KeyOf(lines[i]) = key}
BothOverrides == Len(opt.os_name) = 1 /\ Len(opt.os_version) = 1

\* C6: OS identity resolution returns the two overrides verbatim, without
\* reading the metadata file, exactly when both are supplied; otherwise no
\* override is used, the file is read, and the identity is the ID and the
\* VERSION_ID of the file's lines with exactly one '=' (quotes stripped, the
\* last such line of a key counting), or the detection error when either is
\* missing from them.
C6_DetectOs ==
  [][/\ (pc = "detect_os" /\ BothOverrides) =>
          /\ pc' = "server_status"
          /\ distribution' = opt.os_name[1]
          /\ release' = opt.os_version[1]
          /\ log'[Len(log')].target = <<>>
          /\ os_release' = None
     /\ (pc = "detect_os" /\ ~BothOverrides) =>
          /\ distribution' = <<>> /\ release' = <<>>
          /\ log'[Len(log')].target = OsReleasePath
          /\ \/ pc' = "detect_os_parse" /\ Len(os_release') = 1
             \/ pc' = "failed" /\ err'[1].kind = "IoError"
     /\ pc = "detect_os_parse" =>
          LET lines == Lines(os_release[1])
          IN IF LinesFor(KeyId) # {} /\ LinesFor(KeyVersionId) # {}
             THEN /\ pc' = "server_status"
                  /\ distribution' = ValueOf(lines[Max(LinesFor(KeyId))])
                  /\ release' = ValueOf(lines[Max(LinesFor(KeyVersionId))])
                  /\ err' = None
             ELSE /\ pc' = "failed"
                  /\ err'[1].kind = "DetectionError"
                  /\ distribution' = <<>> /\ release' = <<>>
    ]_vars

\* a file read whose well-formed lines lack ID or VERSION_ID: the detection error
C6_Witness ==
  /\ pc = "failed"
  /\ ErrKind = "DetectionError"
  /\ Len(log) = 1

StepOrder == <<"detect_os", "server_status", "server_repositories", "server_sysreqs">>

\* the number of steps started when the run failed with the error it has
StepsAtFailure ==
  IF ErrKind \in {"IoError", "DetectionError"} THEN 1
  ELSE IF ErrKind \in {"ServerUnreachable", "ResponseFormat"}
  THEN (IF IsNone(rspm_status) THEN 2 ELSE IF IsNone(repositories) THEN 3 ELSE 4)
  ELSE 3

\* C7: the steps of one run are OS detection, the status fetch, the catalog
\* fetch and the action's fetch, in that order, each at most once; a step is
\* started only when the ones before it succeeded, a status outside 200..299
\* is a failure, and after a failure no further step is started.
C7_Sequential ==
  /\ Len(log) <= Len(StepOrder)
  /\ \A i \in 1..Len(log) : log[i].step = StepOrder[i]
  /\ \A i \in 1..Len(log) : \A j \in 1..Len(log) :
       i # j => log[i].target # log[j].target
  /\ Len(log) >= 3 => IsSome(rspm_status)
  /\ Len(log) >= 4 =>
       IsSome(repositories) /\ IsSome(repository) /\ opt.action.cmd = "package"
  /\ pc = "failed" => Len(log) = StepsAtFailure
  /\ \A code \in StatusCodes :
       IsSome(HttpResult(opt.server, StatusPath,
                         [sent |-> TRUE, status_code |-> code,
                          json |-> Some(<<>>)]).ok)
         <=> (200 <= code /\ code <= 299)

\* the catalog fetch failed: three steps were started and no fourth
C7_Witness ==
  /\ pc = "failed"
  /\ IsSome(rspm_status)
  /\ IsNone(repositories)
  /\ ErrKind = "ServerUnreachable"
  /\ opt.action.cmd = "package"
  /\ Len(log) = 3

\* the lines one requirement prints: two headers, the scripts, a blank line
Scripts(prepost) == IF Len(prepost) = 1 THEN prepost[1] ELSE <<>>
BlockLen(req) ==
  2 + Len(Scripts(req.requirements.pre_install))
    + Len(req.requirements.install_scripts)
    + Len(Scripts(req.requirements.post_install)) + 1
RECURSIVE BlockStart(_, _)
BlockStart(reqs, k) == IF k = 1 THEN 0 ELSE BlockStart(reqs, k - 1) + BlockLen(reqs[k - 1])

\* C8: for every requirement printed so far, in response order, the lines are
\* the package name, the system libraries, every pre-install script body in
\* list order, every install script in list order, every post-install script
\* body in list order (then the blank line that ends the block); an absent
\* pre- or post-install list gives no line.
C8_RenderOrder ==
  (pc \in {"print_reqs", "done"} /\ IsSome(response)) =>
    LET reqs == response[1].requirements
        printed == req_idx - 1
    IN /\ Len(stdout) = BlockStart(reqs, printed + 1)
       /\ pc = "done" => printed = Len(reqs)
       /\ \A k \in 1..printed :
            LET r == reqs[k].requirements
                at == BlockStart(reqs, k)
                pre == Scripts(r.pre_install)
                post == Scripts(r.post_install)
            IN /\ stdout[at + 1] = <<"# R package: ">> \o reqs[k].name
               /\ stdout[at + 2] = <<"## System libraries: ">> \o Join(r.packages, <<", ">>)
               /\ \A j \in 1..Len(pre) : stdout[at + 2 + j] = pre[j].script
               /\ \A j \in 1..Len(r.install_scripts) :
                    stdout[at + 2 + Len(pre) + j] = r.install_scripts[j]
               /\ \A j \in 1..Len(post) :
                    stdout[at + 2 + Len(pre) + Len(r.install_scripts) + j] = post[j].script
               /\ stdout[at + BlockLen(reqs[k])] = <<>>

\* a requirement without pre/post lists printed before one with both
C8_Witness ==
  /\ pc = "done"
  /\ IsSome(response)
  /\ response[1].requirements = <<ReqBare, ReqFull>>
  /\ Len(stdout) = 12

====
